---- MODULE Spec2Model ----
(***************************************************************************)
(* Model of the multi-modal retrieval core of Manual_guide_chatbot:        *)
(*   src/retriever.py           Retriever                                  *)
(*   src/document_processor.py  DocumentProcessor                          *)
(* Python strings are sequences of one-character strings, so that lower(), *)
(* split(), strip() and the substring test `in` are computed, not assumed. *)
(* Python's None is NoneInt for integer-valued dictionary entries and the  *)
(* empty string for text entries read through (x.get(k, '') or '').        *)
(***************************************************************************)
EXTENDS Integers, Sequences, FiniteSets, TLC

VARIABLES
    \* ---- Retriever object and its persistent directory
    vector_store,      \* self.vector_store
    images_data,       \* self.images_data
    persist_chunks,    \* the Chroma collection stored under persist_dir
    persist_images,    \* persist_dir/images_data.pkl
    \* ---- last call of a Retriever method
    op,                \* name of the last operation that ran
    query,             \* its query argument
    text_context,      \* text_context argument of get_relevant_images
    max_images,        \* max_images argument of get_relevant_images
    scored_images,     \* local scored_images of get_relevant_images (line 153)
    result_images,     \* value returned by get_relevant_images
    k,                 \* k argument of retrieve_relevant_docs
    result_docs,       \* value returned by retrieve_relevant_docs
    raised,            \* TRUE iff the last Retriever call raised to its caller
    env,               \* what the last call met: store on entry, load and search outcome
    \* ---- the installed langchain_chroma
    chroma_has_len,    \* TRUE iff its Chroma class defines __len__
    \* ---- DocumentProcessor: one file and what its extractor returned
    file,              \* the file at pdf_path / excel_path
    file_out,          \* value returned by process_pdf / process_excel_file
    \* ---- DocumentProcessor.load_documents
    data_dir,          \* os.listdir(data_dir): the files, in listing order
    load_out,          \* value returned by load_documents
    \* ---- main(): st.session_state
    data_loaded,       \* TRUE iff "data_loaded" is in st.session_state
    all_documents,     \* st.session_state.all_documents
    all_images_data    \* st.session_state.all_images_data

retrieverVars == <<vector_store, images_data, persist_chunks, persist_images, chroma_has_len>>
scoreVars == <<query, text_context, max_images, scored_images, result_images>>
retrieveVars == <<k, result_docs, raised, env>>
fileVars == <<file, file_out>>
loadVars == <<data_dir, load_out>>
mainVars == <<data_loaded, all_documents, all_images_data>>
vars == <<op, retrieverVars, scoreVars, retrieveVars, fileVars, loadVars, mainVars>>

-----------------------------------------------------------------------------
(* Bounds of the model *)

MaxCatalog == 3        \* longest image catalog drawn
MaxImagesArg == 2      \* largest max_images argument drawn
MaxRows == 3           \* most data rows of a drawn worksheet
MaxEmbedded == 3       \* most embedded images of a drawn worksheet
MaxPages == 2          \* most pages of a drawn PDF
MaxPageImages == 2     \* most embedded images on a drawn PDF page
MaxFiles == 3          \* most files of a drawn data directory
MaxStored == 3         \* most chunks held by the persistent collection
MaxK == 2              \* largest k argument drawn
MaxIngests == 2        \* most ingestion runs into one persistent directory

-----------------------------------------------------------------------------
(* Python values *)

NoneInt == 0 - 1       \* None / missing key, for page and row_index

Min(a, b) == IF a <= b THEN a ELSE b
Max(a, b) == IF a >= b THEN a ELSE b

UpperChars == <<"A", "B", "C", "D", "E", "F", "G", "H", "I", "J", "K", "L", "M",
                "N", "O", "P", "Q", "R", "S", "T", "U", "V", "W", "X", "Y", "Z">>
LowerChars == <<"a", "b", "c", "d", "e", "f", "g", "h", "i", "j", "k", "l", "m",
                "n", "o", "p", "q", "r", "s", "t", "u", "v", "w", "x", "y", "z">>

\* str.lower() on one character
LowerChar(c) ==
    IF \E i \in 1..Len(UpperChars) : UpperChars[i] = c
    THEN LowerChars[CHOOSE i \in 1..Len(UpperChars) : UpperChars[i] = c]
    ELSE c

\* str.lower()
Lower(s) == [i \in 1..Len(s) |-> LowerChar(s[i])]

\* characters str.split() and str.strip() treat as whitespace
IsSpace(c) == c \in {" ", "\t", "\n"}

\* str.split() with no separator: maximal runs of non-whitespace characters
RECURSIVE SplitFrom(_, _, _)
SplitFrom(s, i, cur) ==
    IF i > Len(s)
    THEN IF cur = <<>> THEN <<>> ELSE <<cur>>
    ELSE IF IsSpace(s[i])
         THEN (IF cur = <<>> THEN <<>> ELSE <<cur>>) \o SplitFrom(s, i + 1, <<>>)
         ELSE SplitFrom(s, i + 1, Append(cur, s[i]))

Split(s) == SplitFrom(s, 1, <<>>)

\* the substring test `sub in s`
Contains(sub, s) ==
    \E i \in 0..(Len(s) - Len(sub)) : SubSeq(s, i + 1, i + Len(sub)) = sub

\* the list slice xs[:n]
SliceTo(xs, n) ==
    IF n >= 0
    THEN SubSeq(xs, 1, Min(n, Len(xs)))
    ELSE SubSeq(xs, 1, Max(0, Len(xs) + n))

Range(f) == {f[i] : i \in DOMAIN f}

-----------------------------------------------------------------------------
(* Retriever.get_relevant_images: scoring *)

\* relevant_pages: the (source, page) pairs of the text context
RelevantPages(ctx) == {<<ctx[i].source, ctx[i].page>> : i \in 1..Len(ctx)}

\* contribution of one keyword to an image's score
KeywordPoints(keyword, img) ==
      (IF Contains(keyword, Lower(img.description)) THEN 2 ELSE 0)
    + (IF Contains(keyword, Lower(img.label)) THEN 5 ELSE 0)
    + (IF Contains(keyword, Lower(img.product_name)) THEN 10 ELSE 0)

\* the loop over query_lower
RECURSIVE KeywordScore(_, _)
KeywordScore(keywords, img) ==
    IF keywords = <<>> THEN 0
    ELSE KeywordPoints(Head(keywords), img) + KeywordScore(Tail(keywords), img)

\* variant: the boost decided by the source file alone
PageBoost_SourceOnly(img, relevant_pages) ==
    IF \E p \in relevant_pages : p[1] = img.source THEN 10 ELSE 0

\* boost for an image on a page of the text context
PageBoost(img, relevant_pages) ==
    IF <<img.source, img.page>> \in relevant_pages THEN 10 ELSE 0

\* variant: no boost for spreadsheet images
ExcelBoost_None(img) == 0

\* boost for an image that has the key 'row_index'
ExcelBoost(img) == IF img.row_index # NoneInt THEN 5 ELSE 0

\* score_image(img)
ScoreImage(img, query_lower, relevant_pages) ==
    KeywordScore(query_lower, img) + PageBoost(img, relevant_pages) + ExcelBoost(img)

\* variant: the filter keeps zero scores
KeepScored_AnyScore(si) == si.score >= 0

\* the filter applied to scored_images
KeepScored(si) == si.score > 0

\* variant: descending, but equal scores end up in reverse catalog order
RECURSIVE InsertDesc_TiesReversed(_, _)
InsertDesc_TiesReversed(sorted, si) ==
    IF sorted = <<>> THEN <<si>>
    ELSE IF Head(sorted).score > si.score
         THEN <<Head(sorted)>> \o InsertDesc_TiesReversed(Tail(sorted), si)
         ELSE <<si>> \o sorted

\* list.sort(key = score, reverse = True): stable, descending
RECURSIVE InsertDesc(_, _)
InsertDesc(sorted, si) ==
    IF sorted = <<>> THEN <<si>>
    ELSE IF Head(sorted).score >= si.score
         THEN <<Head(sorted)>> \o InsertDesc(Tail(sorted), si)
         ELSE <<si>> \o sorted

RECURSIVE SortDesc(_)
SortDesc(xs) ==
    IF xs = <<>> THEN <<>>
    ELSE InsertDesc(SortDesc(SubSeq(xs, 1, Len(xs) - 1)), xs[Len(xs)])

\* scored_images as first computed: one (img, score) pair per catalog entry
ScoredImages(catalog, q, ctx) ==
    [i \in 1..Len(catalog) |->
        [img |-> catalog[i],
         score |-> ScoreImage(catalog[i], Split(Lower(q)), RelevantPages(ctx))]]

\* the images returned: filter, sort, slice, project
RankImages(scored, n) ==
    LET kept == SelectSeq(scored, KeepScored)
        top  == SliceTo(SortDesc(kept), n)
    IN  [i \in 1..Len(top) |-> top[i].img]

-----------------------------------------------------------------------------
(* Retriever: the store handle and the lazy load *)

\* self.vector_store = None
NoStore == [kind |-> "None", chunks |-> <<>>]
\* Chroma(persist_directory = persist_dir): its documents are persist_chunks
PersistentStore == [kind |-> "persistent", chunks |-> <<>>]
\* Chroma.from_documents(chunks, embeddings) without a directory
MemoryStore(chunks) == [kind |-> "memory", chunks |-> chunks]

\* the documents a store handle searches
StoreChunks(vs, disk) ==
    IF vs.kind = "persistent" THEN disk ELSE vs.chunks

\* bool(self.vector_store): None is false; an object is true unless its class
\* defines __len__ and it holds no document
Truthy(vs, disk, has_len) ==
    /\ vs.kind # "None"
    /\ has_len => Len(StoreChunks(vs, disk)) > 0

\* what can happen inside _load_vector_store
LoadOutcomes == {"ok", "embeddings_error", "no_dir", "chroma_error", "pickle_error"}

\* variant: an unreadable pickle is not noticed
LoadImagesData_IgnoreError(pkl, lo) == pkl.data

\* _load_images_data: the pickled list, or [] when the file is missing or unreadable
LoadImagesData(pkl, lo) ==
    IF pkl.exists /\ lo # "pickle_error" THEN pkl.data ELSE <<>>

\* _load_vector_store: the new (vector_store, images_data)
LoadVectorStore(vs, imgs, disk, pkl, has_len, lo) ==
    IF Truthy(vs, disk, has_len) THEN [vector_store |-> vs, images_data |-> imgs]
    ELSE CASE lo = "embeddings_error" -> [vector_store |-> NoStore, images_data |-> imgs]
           [] lo = "no_dir"           -> [vector_store |-> vs, images_data |-> imgs]
           [] lo = "chroma_error"     -> [vector_store |-> NoStore, images_data |-> imgs]
           [] OTHER -> [vector_store |-> PersistentStore,
                        images_data |-> LoadImagesData(pkl, lo)]

\* the step `if not self.vector_store: self._load_vector_store()`
EnsureLoaded(vs, imgs, disk, pkl, has_len, lo) ==
    IF Truthy(vs, disk, has_len) THEN [vector_store |-> vs, images_data |-> imgs]
    ELSE LoadVectorStore(vs, imgs, disk, pkl, has_len, lo)


\* an image dictionary: the entries get_relevant_images reads, and image_data
Img(id, source, page, row, label, description, product_name) ==
    [image_data |-> id, source |-> source, page |-> page, row_index |-> row,
     label |-> label, description |-> description, product_name |-> product_name]

Str_f_pdf == <<"f", ".", "p", "d", "f">>
Str_f_xlsx == <<"f", ".", "x", "l", "s", "x">>

-----------------------------------------------------------------------------
(* DocumentProcessor: text helpers *)

\* str.strip(): drop leading and trailing whitespace
RECURSIVE LStrip(_)
LStrip(s) ==
    IF s # <<>> /\ IsSpace(Head(s)) THEN LStrip(Tail(s)) ELSE s

RECURSIVE RStrip(_)
RStrip(s) ==
    IF s # <<>> /\ IsSpace(s[Len(s)]) THEN RStrip(SubSeq(s, 1, Len(s) - 1)) ELSE s

\* variant: the text is taken as it is
Strip_Nothing(s) == s

Strip(s) == RStrip(LStrip(s))

DigitChars == <<"0", "1", "2", "3", "4", "5", "6", "7", "8", "9">>

\* str(n) for n >= 0, as an f-string renders an integer
RECURSIVE IntStr(_)
IntStr(n) ==
    IF n < 10 THEN <<DigitChars[n + 1]>>
    ELSE IntStr(n \div 10) \o <<DigitChars[(n % 10) + 1]>>

\* os.path.join(data_dir, name)
Str_data_dir == <<"d", "a", "t", "a">>
PathJoin(dir, name) == dir \o <<"/">> \o name

\* os.path.basename(path): what follows the last "/"
RECURSIVE Basename(_)
Basename(path) ==
    IF \E i \in 1..Len(path) : path[i] = "/"
    THEN Basename(SubSeq(path, (CHOOSE i \in 1..Len(path) : path[i] = "/") + 1, Len(path)))
    ELSE path

\* str.endswith(suffix)
EndsWith(s, suffix) ==
    /\ Len(s) >= Len(suffix)
    /\ SubSeq(s, Len(s) - Len(suffix) + 1, Len(s)) = suffix

\* a langchain Document: page_content and the metadata entries that are read
Doc(content, source, page, row, product_name) ==
    [page_content |-> content, source |-> source, page |-> page,
     row_index |-> row, product_name |-> product_name]

\* what an extractor hands back: a raised exception, or (documents, images)
Raised == [raised |-> TRUE, documents |-> <<>>, images |-> <<>>]
Returned2(docs, images) == [raised |-> FALSE, documents |-> docs, images |-> images]

-----------------------------------------------------------------------------
(* DocumentProcessor.process_excel_file and _extract_images_from_excel *)
(* A worksheet image is "ok", "empty" (zero bytes) or "error" (_data()      *)
(* raises).  The base64 text of the K-th image is the number K, of an empty *)
(* image 0 (the empty string); None is NoneInt.                             *)

\* variant: a failed image is dropped from the list
RECURSIVE ExtractImagesFromExcel_SkipFailed(_, _)
ExtractImagesFromExcel_SkipFailed(ws_images, pos) ==
    IF pos > Len(ws_images) THEN <<>>
    ELSE (CASE ws_images[pos] = "ok"    -> <<pos>>
            [] ws_images[pos] = "empty" -> <<0>>
            [] OTHER                  -> <<>>)
         \o ExtractImagesFromExcel_SkipFailed(ws_images, pos + 1)

\* _extract_images_from_excel, from the k-th image of worksheet._images on
RECURSIVE ExtractImagesFromExcel(_, _)
ExtractImagesFromExcel(ws_images, pos) ==
    IF pos > Len(ws_images) THEN <<>>
    ELSE (CASE ws_images[pos] = "ok"    -> <<pos>>
            [] ws_images[pos] = "empty" -> <<0>>
            [] OTHER                  -> <<NoneInt>>)
         \o ExtractImagesFromExcel(ws_images, pos + 1)

\* truth value of an entry of embedded_images: None and '' are false
ImageTruthy(img_b64) == img_b64 # NoneInt /\ img_b64 # 0

Str_ProductCategoryNA == <<"P", "r", "o", "d", "u", "c", "t", " ", "C", "a", "t", "e", "g", "o", "r", "y", ":", " ", "N", "/", "A", "\n">>
Str_ProductName == <<"P", "r", "o", "d", "u", "c", "t", " ", "N", "a", "m", "e", ":", " ">>
Str_ProductRestNA == <<"\n", "P", "r", "o", "d", "u", "c", "t", " ", "S", "u", "b", "t", "y", "p", "e", ":", " ", "N", "/", "A", "\n", "P", "r", "o", "d", "u", "c", "t", " ", "C", "o", "n", "f", "i", "g", "u", "r", "a", "t", "i", "o", "n", ":", " ", "N", "/", "A">>
Str_ProductImageFor == <<"P", "r", "o", "d", "u", "c", "t", " ", "i", "m", "a", "g", "e", " ", "f", "o", "r", " ">>

\* product_text.strip() for a sheet whose only column is 'Product Name'
ProductText(product_name) ==
    Strip(Str_ProductCategoryNA \o Str_ProductName \o product_name \o Str_ProductRestNA)

\* the body of the loop over df.iterrows() for the row at `index` (0-based)
ExcelRow(excel_path, row, index, embedded_images) ==
    LET product_name == Strip(row.product_name)
        doc == Doc(ProductText(product_name), Basename(excel_path), NoneInt,
                   index, product_name)
        img == Img(embedded_images[index + 1], Basename(excel_path), NoneInt, index,
                   product_name, Str_ProductImageFor \o product_name, product_name)
    IN  IF product_name = <<>>
        THEN Returned2(<<>>, <<>>)
        ELSE IF index < Len(embedded_images) /\ ImageTruthy(embedded_images[index + 1])
             THEN Returned2(<<doc>>, <<img>>)
             ELSE Returned2(<<doc>>, <<>>)

RECURSIVE ExcelRows(_, _, _, _)
ExcelRows(excel_path, df, index, embedded_images) ==
    IF index >= Len(df) THEN Returned2(<<>>, <<>>)
    ELSE LET here == ExcelRow(excel_path, df[index + 1], index, embedded_images)
             rest == ExcelRows(excel_path, df, index + 1, embedded_images)
         IN  Returned2(here.documents \o rest.documents, here.images \o rest.images)

\* process_excel_file(excel_path): a workbook that cannot be opened is caught
\* and gives ([], [])
ProcessExcelFile(excel_path, f) ==
    IF ~f.readable THEN Returned2(<<>>, <<>>)
    ELSE ExcelRows(excel_path, f.df, 0, ExtractImagesFromExcel(f.ws_images, 1))

-----------------------------------------------------------------------------
(* DocumentProcessor.process_pdf *)
(* A page is [text, images]; an embedded image is "ok" or "error"           *)
(* (doc.extract_image raises).  The base64 text of image i of page p is the *)
(* number 10 * p + i.                                                       *)

Str_Image == <<"I", "m", "a", "g", "e", " ">>
Str_from_page == <<" ", "f", "r", "o", "m", " ", "p", "a", "g", "e", " ">>
Str_of == <<" ", "o", "f", " ">>

PdfImage(pdf_path, page_num, img_index) ==
    Img(10 * (page_num + 1) + (img_index + 1), Basename(pdf_path), page_num + 1, NoneInt,
        <<>>,
        Str_Image \o IntStr(img_index + 1) \o Str_from_page \o IntStr(page_num + 1)
            \o Str_of \o Basename(pdf_path),
        <<>>)

\* the two nested loops, from image img_index of page page_num on: the images
\* appended, and whether an exception ended the loops
RECURSIVE PdfImagesFrom(_, _, _, _)
PdfImagesFrom(pdf_path, pages, page_num, img_index) ==
    IF page_num >= Len(pages) THEN [images |-> <<>>, failed |-> FALSE]
    ELSE IF img_index >= Len(pages[page_num + 1].images)
         THEN PdfImagesFrom(pdf_path, pages, page_num + 1, 0)
         ELSE IF pages[page_num + 1].images[img_index + 1] = "error"
              THEN [images |-> <<>>, failed |-> TRUE]
              ELSE LET rest == PdfImagesFrom(pdf_path, pages, page_num, img_index + 1)
                   IN  [images |-> <<PdfImage(pdf_path, page_num, img_index)>> \o rest.images,
                        failed |-> rest.failed]

\* PyPDFLoader(pdf_path).load(): one Document per page, 0-based page number
PdfTextDocs(pdf_path, pages) ==
    [i \in 1..Len(pages) |-> Doc(pages[i].text, pdf_path, i - 1, NoneInt, <<>>)]

\* process_pdf(pdf_path): the loader's exception propagates; fitz's is caught
ProcessPdf(pdf_path, f) ==
    IF ~f.readable THEN Raised
    ELSE IF ~f.fitz_ok THEN Returned2(PdfTextDocs(pdf_path, f.pages), <<>>)
    ELSE Returned2(PdfTextDocs(pdf_path, f.pages),
                   PdfImagesFrom(pdf_path, f.pages, 0, 0).images)

-----------------------------------------------------------------------------
(* Files drawn by the extractor specification *)

File(name, readable, fitz_ok, pages, df, ws_images) ==
    [name |-> name, readable |-> readable, fitz_ok |-> fitz_ok, pages |-> pages,
     df |-> df, ws_images |-> ws_images]

SeqsUpTo(S, n) == UNION {[1..m -> S] : m \in 0..n}

ProductNames == {<<>>, <<" ">>, <<"A">>, <<" ", "B", " ">>}
Worksheets == SeqsUpTo({[product_name |-> pn] : pn \in ProductNames}, MaxRows)
EmbeddedLists == SeqsUpTo({"ok", "empty", "error"}, MaxEmbedded)

PdfPages ==
    SeqsUpTo({[text |-> <<"t">>, images |-> im] :
                 im \in SeqsUpTo({"ok", "error"}, MaxPageImages)}, MaxPages)

ExcelFiles ==
    {File(Str_f_xlsx, rd, TRUE, <<>>, df, em) :
        rd \in BOOLEAN, df \in Worksheets, em \in EmbeddedLists}

PdfFiles ==
    {File(Str_f_pdf, rd, fz, pg, <<>>, <<>>) :
        rd \in BOOLEAN, fz \in BOOLEAN, pg \in PdfPages}

NoFile == File(<<>>, FALSE, FALSE, <<>>, <<>>, <<>>)

FileIdle == file = NoFile /\ file_out = Returned2(<<>>, <<>>)

LoadIdle == data_dir = <<>> /\ load_out = Returned2(<<>>, <<>>)

IsPdfName(name) == EndsWith(Lower(name), <<".", "p", "d", "f">>)

IsExcelName(name) ==
    \/ EndsWith(Lower(name), <<".", "x", "l", "s", "x">>)
    \/ EndsWith(Lower(name), <<".", "x", "l", "s">>)

-----------------------------------------------------------------------------
(* DocumentProcessor.load_documents *)

\* variant: the exception of process_pdf is not caught
LoadPdfStep_NoCatch(acc, f) ==
    IF acc.raised \/ ~IsPdfName(f.name) THEN acc
    ELSE LET r == ProcessPdf(PathJoin(Str_data_dir, f.name), f)
         IN  IF r.raised THEN Raised
             ELSE Returned2(acc.documents \o r.documents, acc.images \o r.images)

\* one turn of the first loop: a PDF is processed inside try/except
LoadPdfStep(acc, f) ==
    IF acc.raised \/ ~IsPdfName(f.name) THEN acc
    ELSE LET r == ProcessPdf(PathJoin(Str_data_dir, f.name), f)
         IN  IF r.raised THEN acc
             ELSE Returned2(acc.documents \o r.documents, acc.images \o r.images)

\* one turn of the second loop: a spreadsheet is processed inside try/except
LoadExcelStep(acc, f) ==
    IF acc.raised \/ ~IsExcelName(f.name) THEN acc
    ELSE LET r == ProcessExcelFile(PathJoin(Str_data_dir, f.name), f)
         IN  IF r.raised THEN acc
             ELSE Returned2(acc.documents \o r.documents, acc.images \o r.images)

RECURSIVE LoadPdfs(_, _)
LoadPdfs(acc, listing) ==
    IF listing = <<>> THEN acc
    ELSE LoadPdfs(LoadPdfStep(acc, Head(listing)), Tail(listing))

RECURSIVE LoadExcels(_, _)
LoadExcels(acc, listing) ==
    IF listing = <<>> THEN acc
    ELSE LoadExcels(LoadExcelStep(acc, Head(listing)), Tail(listing))

\* load_documents(): all PDFs of the listing, then all spreadsheets
LoadDocuments(listing) ==
    LoadExcels(LoadPdfs(Returned2(<<>>, <<>>), listing), listing)

-----------------------------------------------------------------------------
(* Inputs drawn by the specifications *)

Str_ModelA200 == <<"M", "o", "d", "e", "l", " ", "A", "2", "0", "0">>
Str_ModelB300 == <<"M", "o", "d", "e", "l", " ", "B", "3", "0", "0">>
Str_Pump == <<"P", "u", "m", "p">>
Str_Img1p3 == <<"I", "m", "a", "g", "e", " ", "1", " ", "f", "r", "o", "m", " ",
                "p", "a", "g", "e", " ", "3", " ", "o", "f", " ", "f", ".", "p", "d", "f">>
Str_Img1p1 == <<"I", "m", "a", "g", "e", " ", "1", " ", "f", "r", "o", "m", " ",
                "p", "a", "g", "e", " ", "1", " ", "o", "f", " ", "f", ".", "p", "d", "f">>
Str_ProdPump == <<"P", "r", "o", "d", "u", "c", "t", " ", "i", "m", "a", "g", "e", " ",
                  "f", "o", "r", " ", "P", "u", "m", "p">>

ImgA200 == Img(1, Str_f_pdf, 3, NoneInt, Str_ModelA200, <<>>, <<>>)
ImgB300 == Img(2, Str_f_xlsx, NoneInt, 1, Str_ModelB300, <<>>, <<>>)
\* as built by process_pdf
ImgPdfP3 == Img(3, Str_f_pdf, 3, NoneInt, <<>>, Str_Img1p3, <<>>)
ImgPdfP1 == Img(4, Str_f_pdf, 1, NoneInt, <<>>, Str_Img1p1, <<>>)
\* as built by process_excel_file
ImgPump == Img(5, Str_f_xlsx, NoneInt, 0, Str_Pump, Str_ProdPump, Str_Pump)

ImagePool == {ImgA200, ImgB300, ImgPdfP3, ImgPdfP1, ImgPump}

\* catalogs: lists of distinct images, at most MaxCatalog long
Catalogs ==
    UNION {{c \in [1..n -> ImagePool] : \A i, j \in 1..n : c[i] = c[j] => i = j}
           : n \in 0..MaxCatalog}

Queries ==
    {<<>>,
     <<" ", "\t">>,
     Str_ModelA200,
     <<"t", "h", "e">>,
     <<"O", "f">>,
     <<"W", "h", "a", "t", " ", "i", "s", " ", "t", "h", "e">>,
     <<"i", "m", "a", "g", "e", " ", "P", "U", "M", "P">>}

Ctx(source, page) == [source |-> source, page |-> page]

\* text contexts: the (source, page) metadata of each retrieved document
Contexts ==
    {<<>>,
     <<Ctx(Str_f_pdf, 3)>>,
     <<Ctx(Str_f_xlsx, NoneInt)>>,
     <<Ctx(Str_f_pdf, 1), Ctx(Str_f_xlsx, NoneInt)>>}

-----------------------------------------------------------------------------
(* Retriever.get_relevant_images *)

\* no call of get_relevant_images yet
ScoreIdle ==
    /\ query = <<>>
    /\ text_context = <<>>
    /\ max_images = 0
    /\ scored_images = <<>>
    /\ result_images = <<>>

\* a session in which main() has not run
MainIdle ==
    /\ data_loaded = FALSE
    /\ all_documents = <<>>
    /\ all_images_data = <<>>

NoEnv == [had_store |-> FALSE, lo |-> "ok", so |-> "ok"]

\* no call of retrieve_relevant_docs yet
RetrieveIdle ==
    /\ k = 0
    /\ result_docs = <<>>
    /\ raised = FALSE
    /\ env = NoEnv

GetRelevantImages ==
    \E q \in Queries, ctx \in Contexts, n \in 0..MaxImagesArg, lo \in LoadOutcomes :
        LET loaded == EnsureLoaded(vector_store, images_data, persist_chunks,
                                   persist_images, chroma_has_len, lo)
            scored == ScoredImages(loaded.images_data, q, ctx)
        IN  /\ Truthy(vector_store, persist_chunks, chroma_has_len) => lo = "ok"
            /\ vector_store' = loaded.vector_store
            /\ images_data' = loaded.images_data
            /\ op' = "get_relevant_images"
            /\ query' = q
            /\ text_context' = ctx
            /\ max_images' = n
            /\ scored_images' = scored
            /\ result_images' = RankImages(scored, n)
            /\ UNCHANGED <<persist_chunks, persist_images, chroma_has_len>>
            /\ UNCHANGED <<retrieveVars, fileVars, loadVars, mainVars>>

\* a Retriever whose create_vector_store(chunks, catalog) has succeeded, or a
\* new Retriever over the directory such a run left behind
ScoreInit ==
    \E cat \in Catalogs, fresh \in BOOLEAN :
        /\ vector_store = IF fresh THEN NoStore ELSE PersistentStore
        /\ images_data = IF fresh THEN <<>> ELSE cat
        /\ persist_chunks = <<1>>
        /\ persist_images = [exists |-> cat # <<>>, data |-> cat]
        /\ chroma_has_len = FALSE
        /\ op = "init"
        /\ ScoreIdle
        /\ RetrieveIdle
        /\ FileIdle
        /\ LoadIdle
        /\ MainIdle

\* one call on each drawn Retriever
ScoreNext == op = "init" /\ GetRelevantImages

SpecScore == ScoreInit /\ [][ScoreNext]_vars

-----------------------------------------------------------------------------
(* Properties of get_relevant_images *)

ScoreDone == op = "get_relevant_images"

\* the keywords of the last call: query.lower().split()
QueryLower == Split(Lower(query))

\* articles, prepositions, pronouns and question words
StopWords ==
    {<<"t", "h", "e">>, <<"a">>, <<"a", "n">>, <<"o", "f">>, <<"i", "n">>,
     <<"i", "t">>, <<"i", "s">>, <<"w", "h", "a", "t">>}

AllStopWords == \A i \in 1..Len(QueryLower) : QueryLower[i] \in StopWords

\* position of a catalog image in images_data (catalog images are distinct)
PosOf(img) == CHOOSE i \in 1..Len(images_data) : images_data[i] = img

\* the score the last call computed for a catalog image
ScoreOf(img) == scored_images[PosOf(img)].score

Returned == Range(result_images)

IsTabular(img) == img.row_index # NoneInt /\ img.page = NoneInt

\* an image some part of the score is positive for
TokenInImage(img) ==
    \E i \in 1..Len(QueryLower) :
        \/ Contains(QueryLower[i], Lower(img.description))
        \/ Contains(QueryLower[i], Lower(img.label))
        \/ Contains(QueryLower[i], Lower(img.product_name))

OnContextPage(img) ==
    \E i \in 1..Len(text_context) :
        text_context[i].source = img.source /\ text_context[i].page = img.page

\* C1 (as stated): a query of stop words only returns the empty list,
\* whatever the catalog and the text context.
C1_StopWordsGiveEmpty ==
    (ScoreDone /\ AllStopWords) => result_images = <<>>

\* C1 (amended): for a query of stop words only, the result is empty exactly
\* when max_images is 0 or no catalog image has a row_index, lies on a
\* (source, page) of the text context, or contains a query token in its
\* description, label or product_name.
C1_StopWordsEmptyIffNoMatch ==
    (ScoreDone /\ AllStopWords) =>
        (result_images = <<>> <=>
            \/ max_images = 0
            \/ \A i \in 1..Len(images_data) :
                  /\ images_data[i].row_index = NoneInt
                  /\ ~OnContextPage(images_data[i])
                  /\ ~TokenInImage(images_data[i]))

\* a stop-word query with a token, over a non-empty catalog, that returns nothing
C1_Witness ==
    /\ ScoreDone /\ AllStopWords
    /\ QueryLower # <<>> /\ images_data # <<>> /\ max_images >= 1
    /\ text_context # <<>>
    /\ result_images = <<>>

C2_Case ==
    /\ ScoreDone
    /\ images_data = <<ImgA200, ImgB300>>
    /\ query = Str_ModelA200
    /\ Ctx(Str_f_pdf, 3) \in Range(text_context)
    /\ max_images >= 1

C3_NoneBelowTen ==
    ScoreDone =>
        \A i \in 1..Len(scored_images) :
            scored_images[i].score < 10 => scored_images[i].img \notin Returned

\* C3 (amended): no image with a zero score is returned; every score above
\* zero passes the filter.
C3_NoneAtZero ==
    ScoreDone =>
        \A i \in 1..Len(scored_images) :
            /\ scored_images[i].score <= 0 => scored_images[i].img \notin Returned
            /\ (scored_images[i].score > 0 /\ Len(result_images) < max_images)
                   => scored_images[i].img \in Returned

\* a zero-score image left out although max_images had room for it
C3_Witness ==
    /\ ScoreDone
    /\ \E i \in 1..Len(scored_images) : scored_images[i].score = 0
    /\ result_images # <<>>
    /\ Len(result_images) < max_images

\* C4: the result has at most max_images entries, is ordered by score
\* descending, keeps catalog order among equal scores, and leaves out no image
\* that scores higher than a returned one.
C4_TopRanked ==
    ScoreDone =>
        /\ Len(result_images) <= max_images
        /\ Returned \subseteq Range(images_data)
        /\ \A i, j \in 1..Len(result_images) :
              i < j =>
                /\ result_images[i] # result_images[j]
                /\ ScoreOf(result_images[i]) >= ScoreOf(result_images[j])
                /\ ScoreOf(result_images[i]) = ScoreOf(result_images[j])
                       => PosOf(result_images[i]) < PosOf(result_images[j])
        /\ \A i \in 1..Len(images_data) :
              images_data[i] \notin Returned =>
                  \A r \in Returned : scored_images[i].score <= ScoreOf(r)

\* two returned images tie, and a third catalog image is left out
C4_Witness ==
    /\ ScoreDone
    /\ Len(result_images) = 2
    /\ ScoreOf(result_images[1]) = ScoreOf(result_images[2])
    /\ Len(images_data) = 3

\* C5: an image from a spreadsheet (row_index, no page) never gets the +10
\* boost: its score is its keyword score plus the spreadsheet boost of 5.
C5_NoPageBoostForTabular ==
    ScoreDone =>
        \A i \in 1..Len(scored_images) :
            IsTabular(scored_images[i].img) =>
                scored_images[i].score
                    = KeywordScore(QueryLower, scored_images[i].img) + 5

-----------------------------------------------------------------------------
(* The extractors applied to one drawn file *)

NoPickle == [exists |-> FALSE, data |-> <<>>]

\* a Retriever that is not used
RetrieverIdle ==
    /\ vector_store = NoStore
    /\ images_data = <<>>
    /\ persist_chunks = <<>>
    /\ persist_images = NoPickle
    /\ chroma_has_len = FALSE

FilePath == PathJoin(Str_data_dir, file.name)

ProcessExcelFileCall ==
    /\ op = "init"
    /\ IsExcelName(file.name)
    /\ op' = "process_excel_file"
    /\ file_out' = ProcessExcelFile(FilePath, file)
    /\ UNCHANGED <<file, retrieverVars, scoreVars, retrieveVars, loadVars, mainVars>>

ProcessPdfCall ==
    /\ op = "init"
    /\ IsPdfName(file.name)
    /\ op' = "process_pdf"
    /\ file_out' = ProcessPdf(FilePath, file)
    /\ UNCHANGED <<file, retrieverVars, scoreVars, retrieveVars, loadVars, mainVars>>

FileInit ==
    /\ op = "init"
    /\ file \in ExcelFiles \cup PdfFiles
    /\ file_out = Returned2(<<>>, <<>>)
    /\ RetrieverIdle
    /\ ScoreIdle
    /\ RetrieveIdle
    /\ LoadIdle
    /\ MainIdle

FileNext == ProcessExcelFileCall \/ ProcessPdfCall

SpecFile == FileInit /\ [][FileNext]_vars

-----------------------------------------------------------------------------
(* Properties of the extractors *)

ExcelDone == op = "process_excel_file"
PdfDone == op = "process_pdf"

\* a cell text that is empty once whitespace is trimmed
IsBlank(s) == \A i \in 1..Len(s) : IsSpace(s[i])

DocRows == {file_out.documents[i].row_index : i \in 1..Len(file_out.documents)}
ImageRows == {file_out.images[i].row_index : i \in 1..Len(file_out.images)}

\* C6: a row whose 'Product Name' is empty after trimming gives no document
\* and no image, whatever the embedded image list holds at its position.
C6_BlankNameRowSkipped ==
    ExcelDone =>
        \A i \in 1..Len(file.df) :
            IsBlank(file.df[i].product_name) =>
                (i - 1) \notin DocRows /\ (i - 1) \notin ImageRows

\* a whitespace-only name in a row that has a decodable image at its
\* position, in a sheet that does produce output
C6_Witness ==
    /\ ExcelDone
    /\ file_out.documents # <<>>
    /\ \E i \in 1..Len(file.df) :
          /\ file.df[i].product_name = <<" ">>
          /\ i <= Len(file.ws_images)
          /\ file.ws_images[i] = "ok"

\* C7: a failed decode of the K-th worksheet image leaves a placeholder at K:
\* every output image has row_index = its ordinal in the embedded-image list
\* (0-based) and carries that image's data, the row at a failed position gets
\* no image, and every named row with a decodable image at its position gets it.
C7_ImagesKeepPosition ==
    ExcelDone =>
        /\ \A j \in 1..Len(file_out.images) :
              LET pos == file_out.images[j].row_index + 1
              IN  /\ pos \in 1..Len(file.ws_images)
                  /\ file.ws_images[pos] = "ok"
                  /\ file_out.images[j].image_data = pos
        /\ \A pos \in 1..Len(file.ws_images) :
              file.ws_images[pos] = "error" => (pos - 1) \notin ImageRows
        /\ file.readable =>
              \A pos \in 1..Min(Len(file.df), Len(file.ws_images)) :
                  (file.ws_images[pos] = "ok" /\ ~IsBlank(file.df[pos].product_name))
                      => (pos - 1) \in ImageRows

\* image K fails, its named row gets a document and no image, and the image
\* after it is returned with its own row
C7_Witness ==
    /\ ExcelDone
    /\ \E pos \in 1..(Len(file.ws_images) - 1) :
          /\ file.ws_images[pos] = "error"
          /\ file.ws_images[pos + 1] = "ok"
          /\ (pos - 1) \in DocRows
          /\ (pos - 1) \notin ImageRows
          /\ pos \in ImageRows

\* C8: in process_pdf a decode failure omits only the failed image: the text
\* of every page and every other embedded image are returned.
C8_OnlyFailedImageOmitted ==
    (PdfDone /\ file.readable /\ file.fitz_ok) =>
        /\ ~file_out.raised
        /\ Len(file_out.documents) = Len(file.pages)
        /\ \A p \in 1..Len(file.pages) :
              \A i \in 1..Len(file.pages[p].images) :
                  file.pages[p].images[i] = "ok" =>
                      \E j \in 1..Len(file_out.images) :
                          /\ file_out.images[j].page = p
                          /\ file_out.images[j].image_data = 10 * p + i

-----------------------------------------------------------------------------
(* load_documents applied to a drawn data directory *)

Page(images) == [text |-> <<"t">>, images |-> images]
Row(name) == [product_name |-> name]

\* a PDF with one page and one image
F_a_pdf == File(<<"a", ".", "p", "d", "f">>, TRUE, TRUE, <<Page(<<"ok">>)>>, <<>>, <<>>)
\* a PDF the loader cannot read: process_pdf raises
F_B_PDF == File(<<"B", ".", "P", "D", "F">>, FALSE, TRUE, <<Page(<<"ok">>)>>, <<>>, <<>>)
\* a PDF of two pages whose second image fails to decode
F_g_pdf == File(<<"g", ".", "p", "d", "f">>, TRUE, TRUE,
                <<Page(<<"ok", "error">>), Page(<<"ok">>)>>, <<>>, <<>>)
\* a workbook with one named row and its image
F_c_xlsx == File(<<"c", ".", "x", "l", "s", "x">>, TRUE, TRUE, <<>>,
                 <<Row(<<"A">>)>>, <<"ok">>)
\* a workbook that cannot be opened: process_excel_file returns ([], [])
F_d_xls == File(<<"d", ".", "x", "l", "s">>, FALSE, TRUE, <<>>,
                <<Row(<<"A">>)>>, <<"ok">>)
\* a file of neither kind
F_e_txt == File(<<"e", ".", "t", "x", "t">>, TRUE, TRUE, <<>>, <<>>, <<>>)

DirFiles == {F_a_pdf, F_B_PDF, F_g_pdf, F_c_xlsx, F_d_xls, F_e_txt}

\* directory listings: distinct files in any order
Listings ==
    UNION {{l \in [1..n -> DirFiles] : \A i, j \in 1..n : l[i] = l[j] => i = j}
           : n \in 0..MaxFiles}

LoadDocumentsCall ==
    /\ op = "init"
    /\ op' = "load_documents"
    /\ load_out' = LoadDocuments(data_dir)
    /\ UNCHANGED <<data_dir, retrieverVars, scoreVars, retrieveVars, fileVars, mainVars>>

LoadInit ==
    /\ op = "init"
    /\ data_dir \in Listings
    /\ load_out = Returned2(<<>>, <<>>)
    /\ RetrieverIdle
    /\ ScoreIdle
    /\ RetrieveIdle
    /\ FileIdle
    /\ MainIdle

LoadNext == LoadDocumentsCall

SpecLoad == LoadInit /\ [][LoadNext]_vars

-----------------------------------------------------------------------------
(* Properties of load_documents *)

LoadDone == op = "load_documents"

\* what the extractor of file f returns or raises
Extracted(f) ==
    IF IsPdfName(f.name) THEN ProcessPdf(PathJoin(Str_data_dir, f.name), f)
    ELSE IF IsExcelName(f.name) THEN ProcessExcelFile(PathJoin(Str_data_dir, f.name), f)
    ELSE Returned2(<<>>, <<>>)

\* the entries of xs that come from the file called name
FromFile(xs, name) ==
    LET OfName(x) == Basename(x.source) = name
    IN  SelectSeq(xs, OfName)

\* C9: when the extraction of one file raises, load_documents does not raise
\* and returns the complete outputs of every other PDF and spreadsheet.
C9_OtherFilesComplete ==
    LoadDone =>
        /\ ~load_out.raised
        /\ \A i \in 1..Len(data_dir) :
              ~Extracted(data_dir[i]).raised =>
                  /\ FromFile(load_out.documents, data_dir[i].name)
                        = Extracted(data_dir[i]).documents
                  /\ FromFile(load_out.images, data_dir[i].name)
                        = Extracted(data_dir[i]).images

\* a file whose extraction raises is listed before a PDF and a spreadsheet
\* that both give output
C9_Witness ==
    /\ LoadDone
    /\ Len(data_dir) >= 3
    /\ Extracted(data_dir[1]).raised
    /\ \E i, j \in 2..Len(data_dir) :
          /\ IsPdfName(data_dir[i].name)
          /\ IsExcelName(data_dir[j].name)
          /\ FromFile(load_out.documents, data_dir[i].name) # <<>>
          /\ FromFile(load_out.images, data_dir[j].name) # <<>>

-----------------------------------------------------------------------------
(* Retriever: building the store and searching it *)

\* stand-in for the embedding model: a text is placed on a line by its length,
\* and the distance of two texts is the distance of their places
Embed(text) == Len(text)
Distance(q, chunk) ==
    IF Embed(q) >= Embed(chunk.page_content)
    THEN Embed(q) - Embed(chunk.page_content)
    ELSE Embed(chunk.page_content) - Embed(q)

\* insertion of one (doc, score) pair, ascending by distance, stable
RECURSIVE InsertAsc(_, _)
InsertAsc(sorted, ds) ==
    IF sorted = <<>> THEN <<ds>>
    ELSE IF Head(sorted).score <= ds.score
         THEN <<Head(sorted)>> \o InsertAsc(Tail(sorted), ds)
         ELSE <<ds>> \o sorted

RECURSIVE SortAsc(_)
SortAsc(xs) ==
    IF xs = <<>> THEN <<>>
    ELSE InsertAsc(SortAsc(SubSeq(xs, 1, Len(xs) - 1)), xs[Len(xs)])

\* Chroma.similarity_search_with_score(query, k): the k nearest documents
SimilaritySearchWithScore(chunks, q, kk) ==
    SliceTo(SortAsc([i \in 1..Len(chunks) |->
                        [doc |-> chunks[i], score |-> Distance(q, chunks[i])]]), kk)

\* what a Retriever call hands back: a raised exception, or a list
CallRaised == [raised |-> TRUE, value |-> <<>>]
CallReturned(v) == [raised |-> FALSE, value |-> v]

\* variant: the search is not wrapped in try/except
SearchStep_NoCatch(vs, disk, has_len, q, kk, so) ==
    IF ~Truthy(vs, disk, has_len) THEN CallReturned(<<>>)
    ELSE IF so = "search_error" THEN CallRaised
    ELSE CallReturned(SimilaritySearchWithScore(StoreChunks(vs, disk), q, kk))

\* retrieve_relevant_docs after the lazy load: [] without a store, else the
\* search inside try/except
SearchStep(vs, disk, has_len, q, kk, so) ==
    IF ~Truthy(vs, disk, has_len) THEN CallReturned(<<>>)
    ELSE IF so = "search_error" THEN CallReturned(<<>>)
    ELSE CallReturned(SimilaritySearchWithScore(StoreChunks(vs, disk), q, kk))

\* what can happen inside create_vector_store
CreateOutcomes == {"ok", "pickle_save_error", "memory_fallback", "both_fail"}

\* chunks and catalogs handed to create_vector_store
ChunkA == Doc(<<"a">>, PathJoin(Str_data_dir, Str_f_pdf), 0, NoneInt, <<>>)
ChunkB == Doc(<<"b", "b", "b">>, Str_f_xlsx, NoneInt, 0, Str_Pump)
ChunkLists == {<<>>, <<ChunkA>>, <<ChunkA, ChunkB>>}
BuildCatalogs == {<<>>, <<ImgB300>>, <<ImgA200, ImgB300>>}
RetrieveQueries == {<<>>, <<"t", "h", "e">>}
SearchOutcomes == {"ok", "search_error"}

\* Retriever(): a new object over the same persistent directory
NewRetriever ==
    /\ op' = "new_retriever"
    /\ vector_store' = NoStore
    /\ images_data' = <<>>
    /\ k' = 0
    /\ result_docs' = <<>>
    /\ raised' = FALSE
    /\ env' = NoEnv
    /\ UNCHANGED <<persist_chunks, persist_images, chroma_has_len>>
    /\ UNCHANGED <<scoreVars, fileVars, loadVars, mainVars>>

\* create_vector_store(chunks, images_data), with its in-memory fallback:
\* the Retriever and the persistent directory it leaves
CreateResult(imgs_now, disk, pkl, chunks, imgs, co) ==
    [vector_store |->
         CASE co \in {"ok", "pickle_save_error"} -> PersistentStore
           [] co = "memory_fallback" -> MemoryStore(chunks)
           [] OTHER -> NoStore,
     persist_chunks |->
         IF co \in {"ok", "pickle_save_error"} THEN disk \o chunks ELSE disk,
     images_data |->
         IF co # "both_fail" /\ imgs # <<>> THEN imgs ELSE imgs_now,
     persist_images |->
         IF co = "ok" /\ imgs # <<>> THEN [exists |-> TRUE, data |-> imgs] ELSE pkl]

CreateVectorStore ==
    \E chunks \in ChunkLists, imgs \in BuildCatalogs, co \in CreateOutcomes :
        LET made == CreateResult(images_data, persist_chunks, persist_images,
                                 chunks, imgs, co)
        IN  /\ Len(persist_chunks) + Len(chunks) <= MaxStored
            /\ op' = "create_vector_store"
            /\ vector_store' = made.vector_store
            /\ persist_chunks' = made.persist_chunks
            /\ images_data' = made.images_data
            /\ persist_images' = made.persist_images
            /\ k' = 0
            /\ result_docs' = <<>>
            /\ raised' = FALSE
            /\ env' = NoEnv
            /\ UNCHANGED <<chroma_has_len, scoreVars, fileVars, loadVars, mainVars>>

\* retrieve_relevant_docs(query, k)
RetrieveRelevantDocs ==
    \E q \in RetrieveQueries, kk \in 1..MaxK, lo \in LoadOutcomes, so \in SearchOutcomes :
        LET had == Truthy(vector_store, persist_chunks, chroma_has_len)
            loaded == EnsureLoaded(vector_store, images_data, persist_chunks,
                                   persist_images, chroma_has_len, lo)
            ret == SearchStep(loaded.vector_store, persist_chunks, chroma_has_len,
                              q, kk, so)
        IN  /\ had => lo = "ok"
            /\ ~Truthy(loaded.vector_store, persist_chunks, chroma_has_len) => so = "ok"
            /\ op' = "retrieve_relevant_docs"
            /\ vector_store' = loaded.vector_store
            /\ images_data' = loaded.images_data
            /\ query' = q
            /\ k' = kk
            /\ result_docs' = ret.value
            /\ raised' = ret.raised
            /\ env' = [had_store |-> had, lo |-> lo, so |-> so]
            /\ UNCHANGED <<persist_chunks, persist_images, chroma_has_len>>
            /\ UNCHANGED <<text_context, max_images, scored_images, result_images>>
            /\ UNCHANGED <<fileVars, loadVars, mainVars>>

RetrieverInit ==
    /\ op = "init"
    /\ vector_store = NoStore
    /\ images_data = <<>>
    /\ persist_chunks = <<>>
    /\ persist_images = NoPickle
    /\ chroma_has_len \in BOOLEAN
    /\ ScoreIdle
    /\ RetrieveIdle
    /\ FileIdle
    /\ LoadIdle
    /\ MainIdle

RetrieverNext == NewRetriever \/ CreateVectorStore \/ RetrieveRelevantDocs

SpecRetriever == RetrieverInit /\ [][RetrieverNext]_vars

-----------------------------------------------------------------------------
(* Properties of retrieve_relevant_docs *)

RetrieveDone == op = "retrieve_relevant_docs"

\* C10: retrieve_relevant_docs never raises; without a store of its own it
\* first loads from the persistent directory; it returns [] when no store can
\* be loaded, when the store holds no chunk, and when the search fails.
C10_RetrieveNeverRaises ==
    RetrieveDone =>
        /\ ~raised
        /\ (~env.had_store /\ env.lo \in {"ok", "pickle_error"})
               => vector_store = PersistentStore
        /\ (~env.had_store /\ env.lo \in {"embeddings_error", "chroma_error", "no_dir"})
               => result_docs = <<>>
        /\ StoreChunks(vector_store, persist_chunks) = <<>> => result_docs = <<>>
        /\ env.so = "search_error" => result_docs = <<>>
        /\ Len(result_docs) <= k

\* a new Retriever loads the persisted chunks, and the search over them fails
C10_Witness ==
    /\ RetrieveDone
    /\ ~env.had_store
    /\ vector_store = PersistentStore
    /\ persist_chunks # <<>>
    /\ env.so = "search_error"
    /\ result_docs = <<>>

-----------------------------------------------------------------------------
(* Properties of the lazy load *)

\* the last call found no usable store and ran _load_vector_store
LazyLoadDone == RetrieveDone /\ ~env.had_store

\* the pickled catalog is missing or cannot be read
CatalogUnavailable == ~persist_images.exists \/ env.lo = "pickle_error"

\* C11 (as stated): after a lazy load the index and the catalog are both
\* loaded or both absent: when the pickled catalog is missing or unreadable,
\* vector_store is left unset.
C11_IndexAndCatalogTogether ==
    (LazyLoadDone /\ CatalogUnavailable) => vector_store = NoStore

\* C11 (amended): after a lazy load in which Chroma opened the directory the
\* index is loaded whatever became of the catalog: images_data is the pickled
\* list when the pickle exists and can be read, and the empty list otherwise;
\* vector_store is unset only when the embeddings or Chroma raised.
C11_IndexLoadedCatalogMayBeEmpty ==
    LazyLoadDone =>
        /\ env.lo \in {"ok", "pickle_error"} =>
              /\ vector_store = PersistentStore
              /\ images_data =
                    IF CatalogUnavailable THEN <<>> ELSE persist_images.data
        /\ env.lo \in {"embeddings_error", "chroma_error"} => vector_store = NoStore

\* chunks and a catalog are on disk, the pickle cannot be read, and the new
\* Retriever ends with the index loaded and an empty catalog
C11_Witness ==
    /\ LazyLoadDone
    /\ env.lo = "pickle_error"
    /\ persist_images.exists /\ persist_images.data # <<>>
    /\ persist_chunks # <<>>
    /\ vector_store = PersistentStore
    /\ images_data = <<>>

-----------------------------------------------------------------------------
(* DocumentProcessor.chunk_documents *)

ChunkSize == 1000
ChunkOverlap == 200

\* windows of chunk_size characters, each starting chunk_overlap before the
\* end of the one before (the cut used when no separator applies)
RECURSIVE Windows(_)
Windows(text) ==
    IF Len(text) <= ChunkSize THEN <<text>>
    ELSE <<SubSeq(text, 1, ChunkSize)>>
         \o Windows(SubSeq(text, ChunkSize - ChunkOverlap + 1, Len(text)))

\* the chunks of one document: none for a blank text, the stripped text itself
\* when it fits chunk_size; the metadata is copied to every chunk
ChunksOf(doc) ==
    LET text == Strip(doc.page_content)
        parts == IF text = <<>> THEN <<>> ELSE Windows(text)
    IN  [i \in 1..Len(parts) |-> [doc EXCEPT !.page_content = parts[i]]]

\* chunk_documents(documents)
RECURSIVE ChunkDocuments(_)
ChunkDocuments(docs) ==
    IF docs = <<>> THEN <<>>
    ELSE ChunksOf(Head(docs)) \o ChunkDocuments(Tail(docs))

-----------------------------------------------------------------------------
(* main(): one run of the Streamlit script *)

DefaultK == 5             \* retrieve_relevant_docs(query, k=5)
DefaultMaxImages == 1     \* get_relevant_images(query, text_context, max_images=1)

\* prompts typed into st.chat_input
Prompts == {<<"t", "h", "e">>, <<"P", "u", "m", "p", " ", "A">>}

\* data directories: the same files can be listed in any order
MainFiles == {F_a_pdf, F_B_PDF, F_c_xlsx}
MainListings ==
    UNION {{l \in [1..n -> MainFiles] : \A i, j \in 1..n : l[i] = l[j] => i = j}
           : n \in 0..MaxFiles}

\* the (source, page) metadata of the retrieved documents, as get_relevant_images reads it
ContextOf(docs) == [i \in 1..Len(docs) |-> Ctx(docs[i].doc.source, docs[i].doc.page)]

\* a run in a session without "data_loaded": the first-time setup.  No prompt
\* can arrive in such a run: st.chat_input is rendered only further down.
MainSetupRun ==
    \E co \in CreateOutcomes :
        LET out == LoadDocuments(data_dir)
            chunks == ChunkDocuments(out.documents)
            made == CreateResult(<<>>, persist_chunks, persist_images,
                                 chunks, out.images, co)
            nothing == out.documents = <<>> /\ out.images = <<>>
        IN  /\ ~data_loaded
            /\ nothing => co = "ok"
            /\ (~nothing /\ co \in {"ok", "pickle_save_error"})
                   => Len(persist_chunks) + Len(chunks) <= MaxIngests * Len(chunks)
            /\ op' = "main_setup"
            /\ all_documents' = out.documents
            /\ all_images_data' = out.images
            /\ data_loaded' = ~nothing
            /\ vector_store' = IF nothing THEN NoStore ELSE made.vector_store
            /\ images_data' = IF nothing THEN <<>> ELSE made.images_data
            /\ persist_chunks' = IF nothing THEN persist_chunks ELSE made.persist_chunks
            /\ persist_images' = IF nothing THEN persist_images ELSE made.persist_images
            /\ query' = <<>>
            /\ text_context' = <<>>
            /\ max_images' = 0
            /\ scored_images' = <<>>
            /\ result_images' = <<>>
            /\ k' = 0
            /\ result_docs' = <<>>
            /\ raised' = FALSE
            /\ env' = NoEnv
            /\ UNCHANGED <<chroma_has_len, fileVars, loadVars>>

\* a rerun in a session with "data_loaded": a new Retriever, and when a prompt
\* was submitted retrieve_relevant_docs(prompt) and
\* get_relevant_images(prompt, context)
MainRerun ==
    \E ask \in BOOLEAN, q \in Prompts, lo \in LoadOutcomes, so \in SearchOutcomes,
       lo2 \in LoadOutcomes :
        LET first == EnsureLoaded(NoStore, <<>>, persist_chunks, persist_images,
                                  chroma_has_len, lo)
            ret == SearchStep(first.vector_store, persist_chunks, chroma_has_len,
                              q, DefaultK, so)
            second == EnsureLoaded(first.vector_store, first.images_data, persist_chunks,
                                   persist_images, chroma_has_len, lo2)
            scored == ScoredImages(second.images_data, q, ContextOf(ret.value))
            stored == Truthy(first.vector_store, persist_chunks, chroma_has_len)
        IN  /\ data_loaded
            /\ op' = "main_rerun"
            /\ UNCHANGED <<persist_chunks, persist_images, chroma_has_len>>
            /\ UNCHANGED <<fileVars, loadVars, mainVars>>
            /\ IF ~ask
               THEN /\ q = <<"t", "h", "e">> /\ lo = "ok" /\ so = "ok" /\ lo2 = "ok"
                    /\ vector_store' = NoStore
                    /\ images_data' = <<>>
                    /\ query' = <<>>
                    /\ text_context' = <<>>
                    /\ max_images' = 0
                    /\ scored_images' = <<>>
                    /\ result_images' = <<>>
                    /\ k' = 0
                    /\ result_docs' = <<>>
                    /\ raised' = FALSE
                    /\ env' = NoEnv
               ELSE /\ stored => lo2 = "ok"
                    /\ ~stored => so = "ok"
                    /\ vector_store' = second.vector_store
                    /\ images_data' = second.images_data
                    /\ query' = q
                    /\ k' = DefaultK
                    /\ result_docs' = ret.value
                    /\ raised' = ret.raised
                    /\ env' = [had_store |-> FALSE, lo |-> lo, so |-> so]
                    /\ text_context' = ContextOf(ret.value)
                    /\ max_images' = DefaultMaxImages
                    /\ scored_images' = scored
                    /\ result_images' = RankImages(scored, DefaultMaxImages)

\* a new browser session or a restart of the server: st.session_state is empty,
\* the persistent directory is as it was left
NewSession ==
    /\ data_loaded
    /\ op' = "new_session"
    /\ data_loaded' = FALSE
    /\ all_documents' = <<>>
    /\ all_images_data' = <<>>
    /\ vector_store' = NoStore
    /\ images_data' = <<>>
    /\ query' = <<>>
    /\ text_context' = <<>>
    /\ max_images' = 0
    /\ scored_images' = <<>>
    /\ result_images' = <<>>
    /\ k' = 0
    /\ result_docs' = <<>>
    /\ raised' = FALSE
    /\ env' = NoEnv
    /\ UNCHANGED <<persist_chunks, persist_images, chroma_has_len, fileVars, loadVars>>

MainInit ==
    /\ op = "init"
    /\ vector_store = NoStore
    /\ images_data = <<>>
    /\ persist_chunks = <<>>
    /\ persist_images = NoPickle
    /\ chroma_has_len \in BOOLEAN
    /\ ScoreIdle
    /\ RetrieveIdle
    /\ FileIdle
    /\ data_dir \in MainListings
    /\ load_out = Returned2(<<>>, <<>>)
    /\ MainIdle

MainNext == MainSetupRun \/ MainRerun \/ NewSession

SpecMain == MainInit /\ [][MainNext]_vars

-----------------------------------------------------------------------------
(* Claims about main() and repeated ingestion *)

\* what retrieve_relevant_docs(q, kk) of a new Retriever returns over the
\* persistent directory holding disk, when loading and searching succeed
RetrievedFrom(disk, q, kk) ==
    SearchStep(PersistentStore, disk, chroma_has_len, q, kk, "ok").value

\* what get_relevant_images(q, context, n) then returns with the pickled catalog
ImagesFrom(disk, pkl, q, kk, n) ==
    RankImages(ScoredImages(LoadImagesData(pkl, "ok"), q,
                            ContextOf(RetrievedFrom(disk, q, kk))), n)

\* the chunks main() hands to create_vector_store for the data directory
DirChunks == ChunkDocuments(LoadDocuments(data_dir).documents)

\* a step that is the second ingestion of the unchanged directory into the
\* persistent store the first ingestion wrote
SecondIngest ==
    /\ op = "new_session"
    /\ persist_chunks = DirChunks
    /\ persist_chunks # <<>>
    /\ op' = "main_setup"
    /\ data_loaded'
    /\ vector_store' = PersistentStore

\* C12: a second ingestion of an unchanged directory into the existing
\* persistent store leaves retrieval unchanged: for every query and k,
\* retrieve_relevant_docs and get_relevant_images return after it what they
\* returned before it.
C12_ReingestLeavesRetrievalUnchanged ==
    [][SecondIngest =>
          \A q \in Prompts, kk \in 1..MaxK, n \in 0..MaxImagesArg :
              /\ RetrievedFrom(persist_chunks', q, kk) = RetrievedFrom(persist_chunks, q, kk)
              /\ ImagesFrom(persist_chunks', persist_images', q, kk, n)
                    = ImagesFrom(persist_chunks, persist_images, q, kk, n)]_vars

\* the state main() is in when the first-time setup has set the flag
SetupDone == op = "main_setup" /\ data_loaded

\* C13: data_loaded is true only after a full successful build: when the setup
\* has set it, the Retriever holds a usable vector store and the image catalog
\* found in the directory is stored.
C13_ReadyOnlyAfterFullBuild ==
    SetupDone =>
        /\ vector_store # NoStore
        /\ images_data = all_images_data
        /\ all_images_data # <<>> =>
               persist_images = [exists |-> TRUE, data |-> all_images_data]

-----------------------------------------------------------------------------
(* Claim about the order of load_documents' outputs *)

\* every output of a PDF precedes every output of a spreadsheet
PdfBeforeTabular(xs) ==
    \A i, j \in 1..Len(xs) :
        (IsPdfName(Basename(xs[i].source)) /\ IsExcelName(Basename(xs[j].source)))
            => i < j

\* C14: the order of load_documents' outputs is determined by the set of file
\* names alone: the outputs of PDFs precede those of spreadsheets, and every
\* listing order of the same files returns the same sequences.
C14_OrderFromNamesAlone ==
    LoadDone =>
        /\ PdfBeforeTabular(load_out.documents)
        /\ PdfBeforeTabular(load_out.images)
        /\ \A l \in Listings :
              Range(l) = Range(data_dir) => LoadDocuments(l) = load_out

====
